---------------------------- MODULE Spec2Model ----------------------------
(***************************************************************************)
(* A model of the article extraction and summarization pipeline of         *)
(* src/app.py (extractor.py of News-Summarizer).                           *)
(*                                                                         *)
(* Python strings are sequences of one-character strings; Python indices   *)
(* are kept 0-based as in the source, so text[i] of the source is t[i+1].  *)
(* JSON / Python values are tagged records (see "Python values" below).    *)
(*                                                                         *)
(* Specifications:                                                         *)
(*   SpecChunk, SpecChunkFair  chunk_text_by_chars, statement by statement *)
(*   SpecBody                  extract_main_text on bounded documents      *)
(*   Spec                      crawl_and_extract, stage by stage           *)
(***************************************************************************)
EXTENDS Integers, Sequences, FiniteSets, TLC

VARIABLES
  ck,        \* frame of chunk_text_by_chars: text, max_chars, t, start, n, chunks, cuts, pc
  bx,        \* frame of extract_main_text: soup, result, pc
  pc,        \* position of crawl_and_extract
  soup,      \* the document the fetch returns (script blocks, meta tags, elements)
  data,      \* the record crawl_and_extract builds and returns
  meta,      \* result of extract_meta
  json_ld,   \* result of parse_json_ld
  pos,       \* <<index into json_ld, index into items>> of the structured-data loops
  chunks,    \* result of chunk_text_by_chars(data["Body"])
  summaries, \* per-chunk summaries collected so far
  calls      \* history: every safe_summarize invocation, in order

vars == <<ck, bx, pc, soup, data, meta, json_ld, pos, chunks, summaries, calls>>
pipeVars == <<pc, soup, data, meta, json_ld, pos, chunks, summaries, calls>>

-----------------------------------------------------------------------------
(* Bounds of the bounded specifications.                                   *)

\* longest text given to chunk_text_by_chars in SpecChunk
MaxLen == 5
\* largest max_chars given to chunk_text_by_chars in SpecChunk
MaxChunkChars == 5
\* most top-level elements of a document in SpecBody
MaxElems == 2
\* most children of an element in SpecBody
MaxChildren == 2

-----------------------------------------------------------------------------
(* Python strings.                                                         *)

Min(a, b) == IF a < b THEN a ELSE b

\* c * n
Rep(c, n) == [k \in 1..n |-> c]

\* str.isspace for the characters of the model
IsSpace(c) == c \in {" ", "\n"}

\* s[a:b] for 0 <= a, 0 <= b (Python clips b to len(s))
Slice(s, a, b) == SubSeq(s, a + 1, Min(b, Len(s)))

\* s.strip(): python removes leading and trailing whitespace
Strip(s) ==
  LET idx == {k \in 1..Len(s) : ~IsSpace(s[k])}
  IN IF idx = {} THEN <<>>
     ELSE LET lo == CHOOSE k \in idx : \A m \in 1..(k - 1) : IsSpace(s[m])
              hi == CHOOSE k \in idx : \A m \in (k + 1)..Len(s) : IsSpace(s[m])
          IN SubSeq(s, lo, hi)

\* s.rfind(c, a, b): highest 0-based index k with a <= k < b and s[k] = c, or -1
RFind(s, c, a, b) ==
  LET hits == {k \in a..(Min(b, Len(s)) - 1) : s[k + 1] = c}
  IN IF hits = {} THEN -1
     ELSE CHOOSE k \in hits : \A m \in (k + 1)..(Min(b, Len(s)) - 1) : s[m + 1] # c

\* all strings over alphabet A of length at most k
StringsUpTo(A, k) == UNION {[1..m -> A] : m \in 0..k}

\* sep.join(parts)
RECURSIVE Join(_, _)
Join(sep, parts) ==
  IF parts = <<>> THEN <<>>
  ELSE IF Len(parts) = 1 THEN parts[1]
  ELSE parts[1] \o sep \o Join(sep, Tail(parts))

\* p is a prefix of s
IsPrefix(p, s) == Len(p) <= Len(s) /\ SubSeq(s, 1, Len(p)) = p

-----------------------------------------------------------------------------
(* chunk_text_by_chars (src/app.py 148-165).                               *)

\* line 150 left out
ChunkInput_NoStrip(text) == text

\* line 150: text = text.strip()
ChunkInput(text) == Strip(text)

\* lines 157-162 without the quarter-window test of line 161
CutEnd_AnyPeriod(t, start, max_chars) ==
  LET end == start + max_chars
      idx == RFind(t, ".", start, end)
  IN IF end < Len(t) /\ idx # -1 THEN idx + 1 ELSE end

\* lines 157-162: the cut point of one loop iteration
CutEnd(t, start, max_chars) ==
  LET end == start + max_chars
      idx == RFind(t, ".", start, end)
  IN IF end < Len(t) /\ idx # -1 /\ idx - start > max_chars \div 4
     THEN idx + 1
     ELSE end

\* lines 156-164: the loop, from cursor start
RECURSIVE ChunkLoop(_, _, _)
ChunkLoop(t, start, max_chars) ==
  IF start < Len(t)
  THEN LET end == CutEnd(t, start, max_chars)
       IN <<Strip(Slice(t, start, end))>> \o ChunkLoop(t, end, max_chars)
  ELSE <<>>

\* lines 148-165
chunk_text_by_chars(text, max_chars) ==
  LET t == ChunkInput(text)
  IN IF Len(t) <= max_chars THEN <<t>> ELSE ChunkLoop(t, 0, max_chars)

ckIdle == [pc |-> "idle"]
bxIdle == [pc |-> "idle"]

ChunkAlphabet == {"a", ".", " "}

\* a call chunk_text_by_chars(text, max_chars) with max_chars > 0
ChunkCall(text, max_chars) ==
  [pc |-> "entry", text |-> text, max_chars |-> max_chars, t |-> <<>>,
   start |-> 0, n |-> 0, chunks |-> <<>>, cuts |-> <<>>]

\* lines 150-155: strip, the single-chunk return, else enter the loop
ChunkEnter ==
  /\ ck.pc = "entry"
  /\ LET t == ChunkInput(ck.text)
     IN IF Len(t) <= ck.max_chars
        THEN ck' = [ck EXCEPT !.pc = "done", !.t = t, !.n = Len(t), !.chunks = <<t>>,
                              !.cuts = <<<<0, Len(t)>>>>]
        ELSE ck' = [ck EXCEPT !.pc = "loop", !.t = t, !.n = Len(t)]
  /\ UNCHANGED <<bx, pipeVars>>

\* lines 156-164: one iteration of the while loop
ChunkIterate ==
  /\ ck.pc = "loop"
  /\ ck.start < ck.n
  /\ LET end == CutEnd(ck.t, ck.start, ck.max_chars)
     IN ck' = [ck EXCEPT !.chunks = Append(@, Strip(Slice(ck.t, ck.start, end))),
                         !.cuts = Append(@, <<ck.start, end>>),
                         !.start = end]
  /\ UNCHANGED <<bx, pipeVars>>

\* lines 156, 165: the loop condition fails, return chunks
ChunkReturn ==
  /\ ck.pc = "loop"
  /\ ~(ck.start < ck.n)
  /\ ck' = [ck EXCEPT !.pc = "done"]
  /\ UNCHANGED <<bx, pipeVars>>

pipeIdle ==
  /\ pc = "idle"
  /\ soup = <<>>
  /\ data = <<>>
  /\ meta = <<>>
  /\ json_ld = <<>>
  /\ pos = <<0, 0>>
  /\ chunks = <<>>
  /\ summaries = <<>>
  /\ calls = <<>>

InitChunk ==
  /\ \E text \in StringsUpTo(ChunkAlphabet, MaxLen), m \in 1..MaxChunkChars :
       ck = ChunkCall(text, m)
  /\ bx = bxIdle
  /\ pipeIdle

NextChunk == ChunkEnter \/ ChunkIterate \/ ChunkReturn

SpecChunk == InitChunk /\ [][NextChunk]_vars

\* the interpreter always executes the next statement of a running call
SpecChunkFair == SpecChunk /\ WF_vars(NextChunk)

-----------------------------------------------------------------------------
(* The parsed document (BeautifulSoup) as far as extract_main_text reads   *)
(* it: soup.elements is the sequence of containers in document order, each *)
(* [tag, children]; a child is [tag, strings], strings being its text      *)
(* nodes.  Containers do not nest in the model.                            *)

P(strings) == [tag |-> "p", strings |-> strings]
Span(strings) == [tag |-> "span", strings |-> strings]
Elem(tag, children) == [tag |-> tag, children |-> children]

\* the members of sequence s that belong to keep, in order
RECURSIVE SelectSeqBy(_, _)
SelectSeqBy(s, keep) ==
  IF s = <<>> THEN <<>>
  ELSE (IF Head(s) \in keep THEN <<Head(s)>> ELSE <<>>) \o SelectSeqBy(Tail(s), keep)

Range(s) == {s[k] : k \in 1..Len(s)}

\* get_text(separator=sep, strip=True) over text nodes: each node stripped,
\* empty ones dropped, the rest joined by sep
GetText(strings, sep) ==
  LET stripped == [k \in 1..Len(strings) |-> Strip(strings[k])]
  IN Join(sep, SelectSeqBy(stripped, Range(stripped) \ {<<>>}))

\* el.find_all("p")
FindAllP(el) == SelectSeqBy(el.children, {c \in Range(el.children) : c.tag = "p"})

\* all text nodes below el, in order
RECURSIVE AllStrings(_)
AllStrings(children) ==
  IF children = <<>> THEN <<>> ELSE Head(children).strings \o AllStrings(Tail(children))

\* "\n\n".join([p.get_text(separator=" ", strip=True) for p in paras if p.get_text(strip=True)])
JoinParagraphs(paras) ==
  LET kept == SelectSeqBy(paras, {p \in Range(paras) : GetText(p.strings, <<>>) # <<>>})
  IN Join(<<"\n", "\n">>, [k \in 1..Len(kept) |-> GetText(kept[k].strings, <<" ">>)])

\* soup.find(tag): the first element with that tag, or None (<<>>)
Find(elements, tag) ==
  LET hits == {k \in 1..Len(elements) : elements[k].tag = tag}
  IN IF hits = {} THEN <<>>
     ELSE <<elements[CHOOSE k \in hits : \A m \in hits : k <= m]>>

\* lines 136-141: the div/section scan, best carried through the loop
RECURSIVE BestCluster(_, _)
BestCluster(elements, best) ==
  IF elements = <<>> THEN best
  ELSE LET div == Head(elements)
           txt == JoinParagraphs(FindAllP(div))
       IN IF div.tag \in {"div", "section"} /\ Len(txt) > Len(best)
          THEN BestCluster(Tail(elements), txt)
          ELSE BestCluster(Tail(elements), best)

\* soup.find_all("p")
RECURSIVE AllP(_)
AllP(elements) ==
  IF elements = <<>> THEN <<>> ELSE FindAllP(Head(elements)) \o AllP(Tail(elements))

\* lines 117-146
extract_main_text(elements) ==
  LET article == Find(elements, "article")
      main == Find(elements, "main")
      best == BestCluster(elements, <<>>)
  IN IF article # <<>>
     THEN IF FindAllP(article[1]) # <<>>
          THEN JoinParagraphs(FindAllP(article[1]))
          ELSE GetText(AllStrings(article[1].children), <<"\n">>)
     ELSE IF main # <<>> /\ FindAllP(main[1]) # <<>>
     THEN JoinParagraphs(FindAllP(main[1]))
     ELSE IF best # <<>> THEN best
     ELSE JoinParagraphs(AllP(elements))

SeqsUpTo(S, k) == UNION {[1..m -> S] : m \in 0..k}

BodyChildren ==
  {P(<<>>), P(<<<<" ">>>>), P(<<<<"a">>>>), P(<<<<"e">>>>), P(<<<<"b">>, <<"c">>>>),
   Span(<<<<"d">>>>)}
BodyTags == {"article", "main", "div", "section", "aside"}
BodyElements == {Elem(tag, ch) : tag \in BodyTags, ch \in SeqsUpTo(BodyChildren, MaxChildren)}

\* a call extract_main_text(soup)
BodyCall ==
  /\ bx.pc = "entry"
  /\ bx' = [bx EXCEPT !.pc = "done", !.result = extract_main_text(bx.elements)]
  /\ UNCHANGED <<ck, pipeVars>>

InitBody ==
  /\ \E els \in SeqsUpTo(BodyElements, MaxElems) :
       bx = [pc |-> "entry", elements |-> els, result |-> <<>>]
  /\ ck = ckIdle
  /\ pipeIdle

NextBody == BodyCall

SpecBody == InitBody /\ [][NextBody]_vars

-----------------------------------------------------------------------------
(* Python values: a JSON value parsed by json.loads, or a field of data.   *)
(* [k |-> "none"], [k |-> "str", v |-> chars], [k |-> "int", v |-> n],     *)
(* [k |-> "list", v |-> sequence], [k |-> "dict", v |-> key :> value].     *)

None == [k |-> "none"]
S(chars) == [k |-> "str", v |-> chars]
N(i) == [k |-> "int", v |-> i]
L(xs) == [k |-> "list", v |-> xs]
D(f) == [k |-> "dict", v |-> f]

\* bool(x)
Truthy(x) ==
  CASE x.k = "none" -> FALSE
    [] x.k = "str" -> x.v # <<>>
    [] x.k = "int" -> x.v # 0
    [] x.k = "list" -> x.v # <<>>
    [] x.k = "dict" -> DOMAIN x.v # {}

\* a or b
Or(a, b) == IF Truthy(a) THEN a ELSE b

\* x.get(key) on a dict
Get(x, key) == IF key \in DOMAIN x.v THEN x.v[key] ELSE None

DigitChars == <<"0", "1", "2", "3", "4", "5", "6", "7", "8", "9">>

RECURSIVE Digits(_)
Digits(i) ==
  LET d == DigitChars[(i % 10) + 1]
  IN IF i < 10 THEN <<d>> ELSE Digits(i \div 10) \o <<d>>

\* str(x) of a string, a non-negative int or None
PyStr(x) ==
  CASE x.k = "str" -> x.v
    [] x.k = "int" -> Digits(x.v)
    [] x.k = "none" -> <<"N", "o", "n", "e">>

UpperToLower ==
  "A" :> "a" @@
  "B" :> "b" @@
  "C" :> "c" @@
  "D" :> "d" @@
  "E" :> "e" @@
  "F" :> "f" @@
  "G" :> "g" @@
  "H" :> "h" @@
  "I" :> "i" @@
  "J" :> "j" @@
  "K" :> "k" @@
  "L" :> "l" @@
  "M" :> "m" @@
  "N" :> "n" @@
  "O" :> "o" @@
  "P" :> "p" @@
  "Q" :> "q" @@
  "R" :> "r" @@
  "S" :> "s" @@
  "T" :> "t" @@
  "U" :> "u" @@
  "V" :> "v" @@
  "W" :> "w" @@
  "X" :> "x" @@
  "Y" :> "y" @@
  "Z" :> "z"

Letters == {"a", "b", "c", "d", "e", "f", "g", "h", "i", "j", "k", "l", "m", "n", "o", "p", "q", "r", "s", "t", "u", "v", "w", "x", "y", "z"}

\* s.lower()
Lower(s) == [k \in 1..Len(s) |-> IF s[k] \in DOMAIN UpperToLower THEN UpperToLower[s[k]] ELSE s[k]]

\* s.split(c)
RECURSIVE Split(_, _)
Split(s, c) ==
  LET hits == {k \in 1..Len(s) : s[k] = c}
  IN IF hits = {} THEN <<s>>
     ELSE LET k == CHOOSE h \in hits : \A m \in hits : h <= m
          IN <<SubSeq(s, 1, k - 1)>> \o Split(SubSeq(s, k + 1, Len(s)), c)

\* [k.strip() for k in s.split(",") if k.strip()], as a list of str values
SplitTags(s) ==
  LET parts == Split(s, ",")
      stripped == [k \in 1..Len(parts) |-> Strip(parts[k])]
      kept == SelectSeqBy(stripped, Range(stripped) \ {<<>>})
  IN [k \in 1..Len(kept) |-> S(kept[k])]

\* kw in t
Contains(t, kw) ==
  \E k \in 0..(Len(t) - Len(kw)) : \A m \in 1..Len(kw) : t[k + m] = kw[m]

-----------------------------------------------------------------------------
(* parse_json_ld (63-79).  A script block is [parse, value]: parse says    *)
(* what json.loads does with the tag's text ("ok": parsed at once;         *)
(* "cleaned": parsed after the whitespace cleanup of line 74; "malformed": *)
(* neither; "nostring": tag.string is None and "{}" is parsed), value what *)
(* it parses to.                                                           *)

Block(parse, value) == [parse |-> parse, value |-> value]

RECURSIVE parse_json_ld(_)
parse_json_ld(scripts) ==
  IF scripts = <<>> THEN <<>>
  ELSE LET tag == Head(scripts)
           item == CASE tag.parse \in {"ok", "cleaned"} -> <<tag.value>>
                     [] tag.parse = "nostring" -> <<D(<<>>)>>
                     [] tag.parse = "malformed" -> <<>>
       IN item \o parse_json_ld(Tail(scripts))

-----------------------------------------------------------------------------
(* extract_meta (81-115).  A meta tag is [attr, key, content]: attr is the *)
(* attribute ("name" or "property") that carries key.                      *)

MetaTag(attr, key, content) == [attr |-> attr, key |-> key, content |-> content]

\* soup.find("meta", attrs={attr: name})
FindMeta(metas, attr, name) ==
  LET hits == {k \in 1..Len(metas) : metas[k].attr = attr /\ metas[k].key = name}
  IN IF hits = {} THEN <<>>
     ELSE <<metas[CHOOSE k \in hits : \A m \in hits : k <= m]>>

\* lines 89-96: the helper _(name)
MetaContent(metas, name) ==
  LET byName == FindMeta(metas, "name", name)
      byProp == FindMeta(metas, "property", name)
  IN IF byName # <<>> /\ Truthy(byName[1].content) THEN S(Strip(byName[1].content.v))
     ELSE IF byProp # <<>> /\ Truthy(byProp[1].content) THEN S(Strip(byProp[1].content.v))
     ELSE None

\* soup.title.string.strip() if soup.title and soup.title.string else the default
TitleString(doc, default) ==
  IF Truthy(doc.title) THEN S(Strip(doc.title.v)) ELSE default

extract_meta(doc) ==
  LET M(name) == MetaContent(doc.metas, name)
      og_title == M("og:title")
  IN [title |-> IF Truthy(og_title) THEN og_title ELSE TitleString(doc, S(<<>>)),
      description |-> Or(Or(M("description"), M("og:description")), M("twitter:description")),
      author |-> Or(Or(M("author"), M("article:author")), M("og:article:author")),
      published_time |-> Or(Or(Or(M("article:published_time"), M("og:published_time")),
                               M("publication_date")), M("date")),
      section |-> Or(M("article:section"), M("og:section")),
      keywords |-> Or(Or(M("keywords"), M("news_keywords")), M("og:tags"))]

-----------------------------------------------------------------------------
(* crawl_and_extract (210-317): the record and the structured-data stage.  *)

\* lines 212-221
EmptyData ==
  [url |-> S(<<"u">>), Headline |-> None, Body |-> None, Author |-> None,
   PublicationDate |-> None, Category |-> None, Tags |-> L(<<>>), Excerpt |-> None]

\* lines 238-240
ItemsOf(item) ==
  IF "@graph" \in DOMAIN item.v /\ item.v["@graph"].k = "list"
  THEN item.v["@graph"].v
  ELSE <<item>>

\* lines 243-246
Qualifies(node) ==
  LET t0 == Or(Or(Get(node, "@type"), Get(node, "type")), S(<<>>))
      t == IF t0.k = "list" THEN (IF t0.v # <<>> THEN t0.v[1] ELSE S(<<>>)) ELSE t0
  IN t.k = "str" /\ Lower(t.v) \in {<<"n", "e", "w", "s", "a", "r", "t", "i", "c", "l", "e">>, <<"a", "r", "t", "i", "c", "l", "e">>, <<"b", "l", "o", "g", "p", "o", "s", "t", "i", "n", "g">>}

\* lines 248-249
NodeHeadline(d, node) ==
  IF ~Truthy(d.Headline)
  THEN Or(Or(Get(node, "headline"), Get(node, "name")), d.Headline)
  ELSE d.Headline

\* lines 251-261
NodeAuthor(d, node) ==
  LET a == Get(node, "author")
  IN IF ~Truthy(a) THEN d.Author
     ELSE IF a.k = "dict" THEN Or(Get(a, "name"), d.Author)
     ELSE IF a.k = "list"
     THEN (IF a.v[1].k = "dict" THEN Or(Get(a.v[1], "name"), d.Author) ELSE S(PyStr(a.v[1])))
     ELSE S(PyStr(a))

\* lines 263-264
NodeDate(d, node) ==
  IF Truthy(Get(node, "datePublished")) THEN Get(node, "datePublished") ELSE d.PublicationDate

\* lines 266-267
NodeSection(d, node) ==
  IF Truthy(Get(node, "articleSection")) THEN Get(node, "articleSection") ELSE d.Category

\* lines 269-274
NodeTags(d, node) ==
  LET kws == Get(node, "keywords")
  IN IF Truthy(kws) /\ ~Truthy(d.Tags)
     THEN (IF kws.k = "list" THEN kws ELSE L(SplitTags(PyStr(kws))))
     ELSE d.Tags

\* lines 243-274: the body of the inner loop for one node that is a dict
ApplyNode(d, node) ==
  IF Qualifies(node)
  THEN [d EXCEPT !.Headline = NodeHeadline(d, node),
                 !.Author = NodeAuthor(d, node),
                 !.PublicationDate = NodeDate(d, node),
                 !.Category = NodeSection(d, node),
                 !.Tags = NodeTags(d, node)]
  ELSE d

\* lines 277-286 with the guards removed
MetaFallback_Unguarded(d, m, doc) ==
  [d EXCEPT !.Headline = Or(m.title, TitleString(doc, None)),
            !.Author = m.author,
            !.PublicationDate = m.published_time,
            !.Category = m.section,
            !.Tags = IF Truthy(m.keywords) THEN L(SplitTags(m.keywords.v)) ELSE @]

\* lines 277-286
MetaFallback(d, m, doc) ==
  [d EXCEPT !.Headline = IF ~Truthy(@) THEN Or(m.title, TitleString(doc, None)) ELSE @,
            !.Author = IF ~Truthy(@) THEN m.author ELSE @,
            !.PublicationDate = IF ~Truthy(@) THEN m.published_time ELSE @,
            !.Category = IF ~Truthy(@) THEN m.section ELSE @,
            !.Tags = IF ~Truthy(@) /\ Truthy(m.keywords) THEN L(SplitTags(m.keywords.v)) ELSE @]

-----------------------------------------------------------------------------
(* safe_summarize (167-179).  The summarization pipeline is external: its  *)
(* outcome for a call is either an exception or a summary text.            *)

Raises == [kind |-> "raise", summary_text |-> <<>>]
Returns(summary_text) == [kind |-> "ok", summary_text |-> summary_text]
NotInvoked == [kind |-> "not_invoked", summary_text |-> <<>>]

\* what the summarizer may do when invoked (a summary is never blank)
SummarizerOutcomes == {Raises, Returns(<<" ", "s", ".", " ">>)}

\* lines 176-179, cutting at the bound of the test of line 177
Fallback_SixTimes(text, max_length) ==
  Strip(Slice(text, 0, max_length * 6)) \o <<".", ".", ".">>

\* lines 176-179: the except branch, text already stripped
Fallback(text, max_length) ==
  IF Len(text) <= max_length * 6
  THEN Strip(Slice(text, 0, max_length * 2)) \o <<".", ".", ".">>
  ELSE Strip(Slice(text, 0, max_length * 2)) \o <<".", ".", ".">>

\* lines 167-179; outcome is what summarizer(...) does if it is invoked
safe_summarize(text, max_length, min_length, outcome) ==
  LET t == Strip(text)
  IN IF t = <<>> THEN <<>>
     ELSE IF outcome.kind = "ok" THEN Strip(outcome.summary_text)
     ELSE Fallback(t, max_length)

\* the outcomes possible for safe_summarize(text, ...): line 170 returns
\* before the summarizer is invoked
OutcomesFor(text) == IF Strip(text) = <<>> THEN {NotInvoked} ELSE SummarizerOutcomes

\* the entry of the history for one safe_summarize invocation
Call(text, max_length, min_length, outcome) ==
  [text |-> text, max_length |-> max_length, min_length |-> min_length,
   outcome |-> outcome.kind,
   result |-> safe_summarize(text, max_length, min_length, outcome)]

-----------------------------------------------------------------------------
(* choose_category_by_keywords (181-197) and the tag heuristic (305-311).  *)

Categories ==
  <<[name |-> <<"p", "o", "l", "i", "t", "i", "c", "s">>, kws |-> {<<"p", "r", "e", "s", "i", "d", "e", "n", "t">>, <<"g", "o", "v", "e", "r", "n", "m", "e", "n", "t">>, <<"e", "l", "e", "c", "t", "i", "o", "n">>, <<"m", "i", "n", "i", "s", "t", "e", "r">>, <<"c", "o", "n", "g", "r", "e", "s", "s">>, <<"p", "a", "r", "l", "i", "a", "m", "e", "n", "t">>}],
    [name |-> <<"s", "p", "o", "r", "t", "s">>, kws |-> {<<"m", "a", "t", "c", "h">>, <<"t", "o", "u", "r", "n", "a", "m", "e", "n", "t">>, <<"s", "c", "o", "r", "e">>, <<"g", "o", "a", "l">>, <<"s", "e", "a", "s", "o", "n">>, <<"c", "o", "a", "c", "h">>, <<"p", "l", "a", "y", "e", "r">>}],
    [name |-> <<"t", "e", "c", "h">>, kws |-> {<<"t", "e", "c", "h", "n", "o", "l", "o", "g", "y">>, <<"t", "e", "c", "h">>, <<"s", "o", "f", "t", "w", "a", "r", "e">>, <<"a", "i", " ">>, <<"a", "r", "t", "i", "f", "i", "c", "i", "a", "l", " ", "i", "n", "t", "e", "l", "l", "i", "g", "e", "n", "c", "e">>, <<"s", "t", "a", "r", "t", "u", "p">>}],
    [name |-> <<"b", "u", "s", "i", "n", "e", "s", "s">>, kws |-> {<<"m", "a", "r", "k", "e", "t">>, <<"s", "t", "o", "c", "k">>, <<"c", "o", "m", "p", "a", "n", "y">>, <<"f", "i", "n", "a", "n", "c", "e">>, <<"e", "c", "o", "n", "o", "m", "y">>, <<"i", "n", "v", "e", "s", "t", "o", "r">>}],
    [name |-> <<"h", "e", "a", "l", "t", "h">>, kws |-> {<<"h", "e", "a", "l", "t", "h">>, <<"d", "i", "s", "e", "a", "s", "e">>, <<"v", "a", "c", "c", "i", "n", "e">>, <<"h", "o", "s", "p", "i", "t", "a", "l">>, <<"c", "o", "v", "i", "d">>, <<"m", "e", "n", "t", "a", "l">>}],
    [name |-> <<"s", "c", "i", "e", "n", "c", "e">>, kws |-> {<<"r", "e", "s", "e", "a", "r", "c", "h">>, <<"s", "t", "u", "d", "y">>, <<"s", "c", "i", "e", "n", "t", "i", "s", "t", "s">>, <<"p", "h", "y", "s", "i", "c", "s">>, <<"s", "p", "a", "c", "e">>, <<"e", "x", "p", "e", "r", "i", "m", "e", "n", "t">>}],
    [name |-> <<"e", "n", "t", "e", "r", "t", "a", "i", "n", "m", "e", "n", "t">>, kws |-> {<<"f", "i", "l", "m">>, <<"m", "o", "v", "i", "e">>, <<"m", "u", "s", "i", "c">>, <<"c", "e", "l", "e", "b", "r", "i", "t", "y">>, <<"t", "v">>, <<"s", "h", "o", "w">>}]>>

\* s.capitalize()
Capitalize(s) ==
  IF s = <<>> THEN s
  ELSE LET first == IF s[1] \in Letters
                    THEN CHOOSE u \in DOMAIN UpperToLower : UpperToLower[u] = s[1]
                    ELSE s[1]
       IN <<first>> \o Lower(Tail(s))

choose_category_by_keywords(text) ==
  LET t == Lower(text)
      hits == {c \in 1..Len(Categories) : \E kw \in Categories[c].kws : Contains(t, kw)}
  IN IF hits = {} THEN <<"G", "e", "n", "e", "r", "a", "l">>
     ELSE Capitalize(Categories[CHOOSE c \in hits : \A m \in hits : c <= m].name)

\* line 292: max_chars of the call
BodyMaxChars == 3000
\* line 294
SingleMaxLength == 130
SingleMinLength == 30
\* line 298
ChunkMaxLength == 120
ChunkMinLength == 20
\* line 300
FinalMaxLength == 150
FinalMinLength == 40
\* line 303
CategoryPrefix == 4000
\* line 306: {4,}
MinWordLen == 4
\* line 310
TopTags == 6

\* \w of the regular expression, for the characters of the model
IsWordChar(c) == c \in Letters \/ c \in DOMAIN UpperToLower \/ c \in Range(DigitChars) \/ c = "_"

\* re.findall(r"\b[a-zA-Z]{4,}\b", t) for lowercase t: the spans <<first, last>>
\* of the letter runs of length >= 4 that word boundaries enclose
WordSpans(t) ==
  LET n == Len(t)
      starts == {k \in 1..n : t[k] \in Letters /\ (k = 1 \/ t[k - 1] \notin Letters)}
      RunEnd(k) == CHOOSE j \in k..n :
                     (j = n \/ t[j + 1] \notin Letters) /\ \A m \in k..j : t[m] \in Letters
  IN {<<k, RunEnd(k)>> : k \in {s \in starts :
         /\ RunEnd(s) - s + 1 >= MinWordLen
         /\ (s = 1 \/ ~IsWordChar(t[s - 1]))
         /\ (RunEnd(s) = n \/ ~IsWordChar(t[RunEnd(s) + 1]))}}

\* the words of the spans, in text order
RECURSIVE WordsInOrder(_, _)
WordsInOrder(t, spans) ==
  IF spans = {} THEN <<>>
  ELSE LET first == CHOOSE s \in spans : \A o \in spans : s[1] <= o[1]
       IN <<SubSeq(t, first[1], first[2])>> \o WordsInOrder(t, spans \ {first})

\* the keys of freq in insertion order: each word at its first occurrence
RECURSIVE FirstOccurrences(_, _)
FirstOccurrences(words, seen) ==
  IF words = <<>> THEN <<>>
  ELSE IF Head(words) \in seen THEN FirstOccurrences(Tail(words), seen)
  ELSE <<Head(words)>> \o FirstOccurrences(Tail(words), seen \cup {Head(words)})

Count(words, w) == Cardinality({k \in 1..Len(words) : words[k] = w})

\* sorted(freq.items(), key=count, reverse=True): stable, so ties keep insertion order
RECURSIVE SortByCount(_, _)
SortByCount(keys, words) ==
  IF keys = <<>> THEN <<>>
  ELSE LET top == CHOOSE k \in 1..Len(keys) :
                    /\ \A m \in 1..Len(keys) : Count(words, keys[k]) >= Count(words, keys[m])
                    /\ \A m \in 1..(k - 1) : Count(words, keys[m]) < Count(words, keys[k])
           rest == [m \in 1..(Len(keys) - 1) |-> IF m < top THEN keys[m] ELSE keys[m + 1]]
       IN <<keys[top]>> \o SortByCount(rest, words)

\* lines 306-311
InferTags(body) ==
  LET t == Lower(body)
      words == WordsInOrder(t, WordSpans(t))
      top == Slice(SortByCount(FirstOccurrences(words, {}), words), 0, TopTags)
  IN IF top # <<>> THEN [k \in 1..Len(top) |-> S(top[k])] ELSE <<S(<<"g", "e", "n", "e", "r", "a", "l">>)>>

\* (data["Body"] or "")
BodyOrEmpty(d) == IF Truthy(d.Body) THEN d.Body.v ELSE <<>>

\* lines 302-303
CategoryFallback(d) ==
  IF ~Truthy(d.Category) \/ d.Category = S(<<>>)
  THEN [d EXCEPT !.Category = S(choose_category_by_keywords(Slice(BodyOrEmpty(d), 0, CategoryPrefix)))]
  ELSE d

\* lines 305-311
TagsFallback(d) ==
  IF ~Truthy(d.Tags) THEN [d EXCEPT !.Tags = L(InferTags(BodyOrEmpty(d)))] ELSE d

\* lines 313-315
StripField(x) == IF Truthy(x) /\ x.k = "str" THEN S(Strip(x.v)) ELSE x

NormalizeData(d) ==
  [d EXCEPT !.Headline = StripField(@), !.Author = StripField(@),
            !.PublicationDate = StripField(@), !.Category = StripField(@),
            !.Excerpt = StripField(@), !.Body = StripField(@)]

-----------------------------------------------------------------------------
(* The documents of Spec.                                                  *)

\* most script blocks of a document
MaxScripts == 2

NodeA ==
  D("@type" :> S(<<"N", "e", "w", "s", "A", "r", "t", "i", "c", "l", "e">>) @@ "headline" :> S(<<"A">>) @@
    "author" :> D("name" :> S(<<"A", "n", "n">>)) @@ "datePublished" :> S(<<"d", "1">>) @@
    "articleSection" :> S(<<"W", "o", "r", "l", "d">>) @@ "keywords" :> S(<<"x", ",", " ", ",", "y">>))
NodeB ==
  D("@type" :> L(<<S(<<"A", "r", "t", "i", "c", "l", "e">>)>>) @@ "headline" :> S(<<" ", "B", " ">>) @@
    "author" :> L(<<S(<<"B", "o", "b">>)>>) @@ "datePublished" :> S(<<"d", "2">>) @@
    "articleSection" :> S(<<"L", "o", "c", "a", "l">>) @@ "keywords" :> L(<<S(<<>>), S(<<"b">>)>>))
NodeBlank ==
  D("@type" :> S(<<"a", "r", "t", "i", "c", "l", "e">>) @@ "headline" :> S(<<>>) @@ "name" :> S(<<"C">>) @@
    "author" :> D("name" :> S(<<>>)) @@ "datePublished" :> S(<<>>) @@
    "articleSection" :> S(<<" ">>) @@ "keywords" :> S(<<",">>))
NodeNum ==
  D("type" :> S(<<"B", "l", "o", "g", "P", "o", "s", "t", "i", "n", "g">>) @@ "headline" :> N(7) @@ "author" :> N(7) @@
    "datePublished" :> N(7) @@ "articleSection" :> N(7) @@ "keywords" :> N(7))
NodePerson ==
  D("@type" :> S(<<"P", "e", "r", "s", "o", "n">>) @@ "name" :> S(<<"P">>) @@ "author" :> S(<<"P">>) @@
    "datePublished" :> S(<<"P">>) @@ "articleSection" :> S(<<"P">>) @@ "keywords" :> S(<<"P">>))
GraphAB == D("@context" :> S(<<"s">>) @@ "@graph" :> L(<<NodeA, NodeB>>))
GraphBad == D("@graph" :> L(<<NodeB, S(<<"x">>)>>))

Blocks ==
  {Block("ok", NodeA), Block("cleaned", NodeB), Block("ok", NodeBlank), Block("ok", NodeNum),
   Block("ok", NodePerson), Block("ok", GraphAB), Block("ok", GraphBad),
   Block("ok", L(<<NodeA>>)), Block("malformed", None), Block("nostring", None)}

Head0 == [title |-> None, metas |-> <<>>]
HeadFull ==
  [title |-> S(<<" ", "T", " ">>),
   metas |-> <<MetaTag("property", "og:title", S(<<"M">>)),
               MetaTag("name", "author", S(<<"M", "a", "x">>)),
               MetaTag("property", "article:published_time", S(<<" ", "m", "1">>)),
               MetaTag("property", "article:section", S(<<"M", "e", "t", "r", "o">>)),
               MetaTag("name", "keywords", S(<<"m", ",", " ", ",", "k">>))>>]
HeadAlias ==
  [title |-> S(<<"T">>),
   metas |-> <<MetaTag("name", "description", S(<<>>)),
               MetaTag("property", "og:description", S(<<"D">>)),
               MetaTag("name", "og:section", S(<<" ">>)),
               MetaTag("name", "news_keywords", S(<<",">>)),
               MetaTag("name", "date", S(<<"m", "2">>))>>]
Heads == {Head0, HeadFull, HeadAlias}

DomNone == <<>>
DomArticle == <<Elem("article", <<P(<<<<"G", "o", "a", "l", " ">>, <<"s", "c", "o", "r", "e", "d", ".">>>>), P(<<<<"A", " ", "g", "o", "a", "l", "!">>>>)>>)>>
DomDivs ==
  <<Elem("div", <<P(<<<<"t", "v">>>>)>>), Elem("div", <<P(<<<<"a", "a", "a", "a", " ", "b", "b", "b", "b">>>>), P(<<<<"b", "b", "b", "b">>>>)>>)>>
DomEmptyArticle == <<Elem("article", <<P(<<>>)>>), Elem("div", <<P(<<<<"t", "e", "x", "t">>>>)>>)>>
DomMid == <<Elem("article", <<P(<<Rep("a", 300)>>)>>)>>
DomLong == <<Elem("article", <<P(<<Rep("a", BodyMaxChars + 1)>>)>>)>>
DomGap ==
  <<Elem("article", <<P(<<<<"a">> \o Rep(" ", 2 * BodyMaxChars) \o <<"b">>>>)>>)>>
DomSentence ==
  <<Elem("main", <<P(<<Rep("a", 1000) \o <<".">> \o Rep("a", BodyMaxChars - 500)>>)>>)>>
ShortDoms == {DomNone, DomArticle, DomDivs, DomEmptyArticle, DomMid}
LongDoms == {DomLong, DomGap, DomSentence}

Doc(scripts, head, elements) ==
  [title |-> head.title, metas |-> head.metas, scripts |-> scripts, elements |-> elements]

Documents ==
  {Doc(sc, hd, el) : sc \in SeqsUpTo(Blocks, MaxScripts), hd \in {Head0, HeadFull},
                     el \in {DomNone, DomArticle}}
  \cup
  {Doc(sc, hd, el) : sc \in {<<>>, <<Block("ok", NodeA)>>, <<Block("ok", NodeBlank)>>},
                     hd \in Heads, el \in ShortDoms}
  \cup
  {Doc(<<>>, Head0, el) : el \in LongDoms}
  \cup
  {Doc(<<Block("ok", NodeA)>>, HeadFull, el) : el \in LongDoms}

-----------------------------------------------------------------------------
(* crawl_and_extract (210-317), stage by stage.                            *)

chunkUnchanged == UNCHANGED <<ck, bx>>

\* lines 223-224, 228: _fetch_html returns the page
FetchOk ==
  /\ pc = "fetch"
  /\ pc' = "parse"
  /\ UNCHANGED <<soup, data, meta, json_ld, pos, chunks, summaries, calls>>
  /\ chunkUnchanged

\* lines 223-226: _fetch_html returns None (crawl4ai and requests both fail)
FetchFails ==
  /\ pc = "fetch"
  /\ pc' = "done"
  /\ UNCHANGED <<soup, data, meta, json_ld, pos, chunks, summaries, calls>>
  /\ chunkUnchanged

\* lines 230-231
Parse ==
  /\ pc = "parse"
  /\ meta' = extract_meta(soup)
  /\ json_ld' = parse_json_ld(soup.scripts)
  /\ pos' = <<1, 1>>
  /\ pc' = "json_ld"
  /\ UNCHANGED <<soup, data, chunks, summaries, calls>>
  /\ chunkUnchanged

\* lines 235-236: an item that is not a dict is skipped
LdSkipItem ==
  /\ pc = "json_ld"
  /\ pos[1] <= Len(json_ld)
  /\ json_ld[pos[1]].k # "dict"
  /\ pos' = <<pos[1] + 1, 1>>
  /\ UNCHANGED <<pc, soup, data, meta, json_ld, chunks, summaries, calls>>
  /\ chunkUnchanged

\* lines 241-274: one node of the inner loop
LdNode ==
  /\ pc = "json_ld"
  /\ pos[1] <= Len(json_ld)
  /\ json_ld[pos[1]].k = "dict"
  /\ pos[2] <= Len(ItemsOf(json_ld[pos[1]]))
  /\ ItemsOf(json_ld[pos[1]])[pos[2]].k = "dict"
  /\ data' = ApplyNode(data, ItemsOf(json_ld[pos[1]])[pos[2]])
  /\ pos' = <<pos[1], pos[2] + 1>>
  /\ UNCHANGED <<pc, soup, meta, json_ld, chunks, summaries, calls>>
  /\ chunkUnchanged

\* line 243: node.get on a node that is not a dict raises AttributeError,
\* which nothing in crawl_and_extract catches
LdNodeRaises ==
  /\ pc = "json_ld"
  /\ pos[1] <= Len(json_ld)
  /\ json_ld[pos[1]].k = "dict"
  /\ pos[2] <= Len(ItemsOf(json_ld[pos[1]]))
  /\ ItemsOf(json_ld[pos[1]])[pos[2]].k # "dict"
  /\ pc' = "raised"
  /\ UNCHANGED <<soup, data, meta, json_ld, pos, chunks, summaries, calls>>
  /\ chunkUnchanged

\* line 241: the inner loop ends
LdItemDone ==
  /\ pc = "json_ld"
  /\ pos[1] <= Len(json_ld)
  /\ json_ld[pos[1]].k = "dict"
  /\ pos[2] > Len(ItemsOf(json_ld[pos[1]]))
  /\ pos' = <<pos[1] + 1, 1>>
  /\ UNCHANGED <<pc, soup, data, meta, json_ld, chunks, summaries, calls>>
  /\ chunkUnchanged

\* lines 233-234: the outer loop ends (or json_ld is empty)
LdDone ==
  /\ pc = "json_ld"
  /\ pos[1] > Len(json_ld)
  /\ pc' = "meta_fallback"
  /\ UNCHANGED <<soup, data, meta, json_ld, pos, chunks, summaries, calls>>
  /\ chunkUnchanged

\* lines 277-286
MetaStage ==
  /\ pc = "meta_fallback"
  /\ data' = MetaFallback(data, meta, soup)
  /\ pc' = "body"
  /\ UNCHANGED <<soup, meta, json_ld, pos, chunks, summaries, calls>>
  /\ chunkUnchanged

\* lines 288-289
BodyStage ==
  /\ pc = "body"
  /\ LET body_text == extract_main_text(soup.elements)
     IN data' = [data EXCEPT !.Body = IF body_text # <<>> THEN S(body_text) ELSE None]
  /\ pc' = "chunk"
  /\ UNCHANGED <<soup, meta, json_ld, pos, chunks, summaries, calls>>
  /\ chunkUnchanged

\* lines 291-292
ChunkStage ==
  /\ pc = "chunk"
  /\ Truthy(data.Body)
  /\ chunks' = chunk_text_by_chars(data.Body.v, BodyMaxChars)
  /\ pc' = "summarize"
  /\ UNCHANGED <<soup, data, meta, json_ld, pos, summaries, calls>>
  /\ chunkUnchanged

\* line 291: no body, no excerpt
SkipSummary ==
  /\ pc = "chunk"
  /\ ~Truthy(data.Body)
  /\ pc' = "category"
  /\ UNCHANGED <<soup, data, meta, json_ld, pos, chunks, summaries, calls>>
  /\ chunkUnchanged

\* lines 293-294, 301
SummarizeSingle ==
  /\ pc = "summarize"
  /\ Len(chunks) = 1
  /\ \E outcome \in OutcomesFor(data.Body.v) :
       LET call == Call(data.Body.v, SingleMaxLength, SingleMinLength, outcome)
       IN /\ calls' = Append(calls, call)
          /\ data' = [data EXCEPT !.Excerpt = S(call.result)]
  /\ pc' = "category"
  /\ UNCHANGED <<soup, meta, json_ld, pos, chunks, summaries>>
  /\ chunkUnchanged

\* lines 297-298: one iteration of the loop over chunks
SummarizeChunk ==
  /\ pc = "summarize"
  /\ Len(chunks) # 1
  /\ Len(summaries) < Len(chunks)
  /\ \E outcome \in OutcomesFor(chunks[Len(summaries) + 1]) :
       LET call == Call(chunks[Len(summaries) + 1], ChunkMaxLength, ChunkMinLength, outcome)
       IN /\ calls' = Append(calls, call)
          /\ summaries' = Append(summaries, call.result)
  /\ UNCHANGED <<pc, soup, data, meta, json_ld, pos, chunks>>
  /\ chunkUnchanged

\* lines 299-301
SummarizeCombined ==
  /\ pc = "summarize"
  /\ Len(chunks) # 1
  /\ Len(summaries) = Len(chunks)
  /\ LET combined == Join(<<"\n", "\n">>, summaries)
     IN \E outcome \in OutcomesFor(combined) :
          LET call == Call(combined, FinalMaxLength, FinalMinLength, outcome)
          IN /\ calls' = Append(calls, call)
             /\ data' = [data EXCEPT !.Excerpt = S(call.result)]
  /\ pc' = "category"
  /\ UNCHANGED <<soup, meta, json_ld, pos, chunks, summaries>>
  /\ chunkUnchanged

\* lines 302-303
CategoryStage ==
  /\ pc = "category"
  /\ data' = CategoryFallback(data)
  /\ pc' = "tags"
  /\ UNCHANGED <<soup, meta, json_ld, pos, chunks, summaries, calls>>
  /\ chunkUnchanged

\* lines 305-311
TagsStage ==
  /\ pc = "tags"
  /\ data' = TagsFallback(data)
  /\ pc' = "normalize"
  /\ UNCHANGED <<soup, meta, json_ld, pos, chunks, summaries, calls>>
  /\ chunkUnchanged

\* lines 313-317
Normalize ==
  /\ pc = "normalize"
  /\ data' = NormalizeData(data)
  /\ pc' = "done"
  /\ UNCHANGED <<soup, meta, json_ld, pos, chunks, summaries, calls>>
  /\ chunkUnchanged

Init ==
  /\ soup \in Documents
  /\ pc = "fetch"
  /\ data = EmptyData
  /\ meta = <<>>
  /\ json_ld = <<>>
  /\ pos = <<0, 0>>
  /\ chunks = <<>>
  /\ summaries = <<>>
  /\ calls = <<>>
  /\ ck = ckIdle
  /\ bx = bxIdle

Next ==
  \/ FetchOk \/ FetchFails \/ Parse
  \/ LdSkipItem \/ LdNode \/ LdNodeRaises \/ LdItemDone \/ LdDone
  \/ MetaStage \/ BodyStage \/ ChunkStage \/ SkipSummary
  \/ SummarizeSingle \/ SummarizeChunk \/ SummarizeCombined
  \/ CategoryStage \/ TagsStage \/ Normalize

Spec == Init /\ [][Next]_vars

-----------------------------------------------------------------------------
(* Properties.                                                             *)

PrecedenceFields == {"Headline", "Author", "PublicationDate", "Category", "Tags"}
StringFields == {"Headline", "Body", "Author", "PublicationDate", "Category", "Excerpt"}
AfterStructuredData == {"meta_fallback", "body", "chunk", "summarize", "category", "tags"}
AfterSummarize == {"category", "tags", "normalize", "done"}

\* x, whitespace-trimmed when it is a string
Trimmed(x) == IF x.k = "str" THEN S(Strip(x.v)) ELSE x

\* C1: a field that holds a non-empty value when the structured-data stage
\* ends is left as it is by the meta-tag stage, the body and summary stages
\* and the keyword/frequency heuristics, and the final normalization only
\* trims it: the returned value is the structured-data value up to trimming.
C1_StructuredDataKept ==
  [][/\ pc \in AfterStructuredData =>
          \A f \in PrecedenceFields : Truthy(data[f]) => data'[f] = data[f]
     /\ pc = "normalize" =>
          \A f \in PrecedenceFields : Truthy(data[f]) => data'[f] = Trimmed(data[f])]_vars

\* a NewsArticle headline "A" against the meta title "M": the record says "A"
C1_Witness ==
  /\ pc = "done"
  /\ meta # <<>>
  /\ meta.title = S(<<"M">>)
  /\ meta.author = S(<<"M", "a", "x">>)
  /\ data.Headline = S(<<"A">>)
  /\ data.Author = S(<<"A", "n", "n">>)

\* C2: within the structured-data stage, once a qualifying item has given
\* headline, author, datePublished or articleSection a non-empty value, no
\* later qualifying item changes that field.
C2_FirstItemWins ==
  [][pc = "json_ld" =>
       \A f \in {"Headline", "Author", "PublicationDate", "Category"} :
          Truthy(data[f]) => data'[f] = data[f]]_vars

\* C3: no exception propagates out of crawl_and_extract.
C3_NoExceptionPropagates == pc # "raised"

\* C4: every returned record has its string fields trimmed, no empty string
\* among its tags, and a category that is not the empty string.
C4_RecordInvariant ==
  pc = "done" =>
    /\ \A f \in StringFields : data[f].k = "str" => Strip(data[f].v) = data[f].v
    /\ \A k \in 1..Len(data.Tags.v) : data.Tags.v[k] # S(<<>>)
    /\ data.Category # S(<<>>)

\* the text of window k of a finished chunking
Window(k) == Slice(ck.t, ck.cuts[k][1], ck.cuts[k][2])

RECURSIVE Concat(_)
Concat(parts) == IF parts = <<>> THEN <<>> ELSE Head(parts) \o Concat(Tail(parts))

\* C5 (for a text that is not blank): the chunks returned are non-empty and
\* trimmed, each is the trimmed text of its cut window, and the windows are
\* contiguous, do not overlap and concatenate to the (trimmed) input.
C5_ChunksNonEmptyAndReconstruct ==
  (ck.pc = "done" /\ Strip(ck.text) # <<>>) =>
    /\ Len(ck.cuts) = Len(ck.chunks)
    /\ \A k \in 1..Len(ck.chunks) :
         /\ ck.chunks[k] # <<>>
         /\ Strip(ck.chunks[k]) = ck.chunks[k]
         /\ ck.chunks[k] = Strip(Window(k))
    /\ ck.cuts[1][1] = 0
    /\ \A k \in 1..(Len(ck.cuts) - 1) : ck.cuts[k][2] = ck.cuts[k + 1][1]
    /\ Concat([k \in 1..Len(ck.cuts) |-> Window(k)]) = Strip(ck.text)

\* C6 as stated: exactly one chunk iff the length of the text as passed in
\* is at most max_chars.
C6_SingleIffRawLength ==
  ck.pc = "done" => (Len(ck.chunks) = 1 <=> Len(ck.text) <= ck.max_chars)

\* C6 amended: exactly one chunk iff the length of the whitespace-trimmed
\* text is at most max_chars.
C6_SingleIffTrimmedLength ==
  ck.pc = "done" => (Len(ck.chunks) = 1 <=> Len(Strip(ck.text)) <= ck.max_chars)

\* a text longer than max_chars as passed in that comes back as one chunk
C6_Witness ==
  /\ ck.pc = "done"
  /\ Len(ck.chunks) = 1
  /\ Len(ck.text) > ck.max_chars
  /\ ck.chunks[1] # <<>>

\* the history restricted to the calls that reached the summarizer
Invoked == SelectSeqBy(calls, {c \in Range(calls) : c.outcome # "not_invoked"})

\* C7: for a non-empty body the summarizer is invoked once on the body with
\* (130, 30) when there is one chunk; otherwise once per chunk, in order,
\* with (120, 20) and then once with (150, 40) on the per-chunk summaries
\* joined by blank lines; the excerpt is the result of the last call.
C7_MapReduceOrder ==
  (pc \in AfterSummarize /\ Truthy(data.Body)) =>
    /\ Invoked = calls
    /\ IF Len(chunks) = 1
       THEN /\ Len(calls) = 1
            /\ calls[1].text = data.Body.v
            /\ calls[1].max_length = 130 /\ calls[1].min_length = 30
       ELSE /\ Len(calls) = Len(chunks) + 1
            /\ \A k \in 1..Len(chunks) :
                 /\ calls[k].text = chunks[k]
                 /\ calls[k].max_length = 120 /\ calls[k].min_length = 20
            /\ calls[Len(calls)].text =
                 Join(<<"\n", "\n">>, [k \in 1..Len(chunks) |-> calls[k].result])
            /\ calls[Len(calls)].max_length = 150 /\ calls[Len(calls)].min_length = 40
    /\ data.Excerpt = S(calls[Len(calls)].result)

\* C8: a call whose summarizer raises returns a prefix of its trimmed input
\* of at most 2 * max_length characters (the first 2 * max_length characters
\* less trailing whitespace) followed by "..."; the pipeline goes on: with
\* several chunks every chunk and the final reduce call are processed, and
\* the record carries an excerpt.
C8_FallbackIsLocal ==
  /\ \A k \in 1..Len(calls) :
       calls[k].outcome = "raise" =>
         LET r == calls[k].result
             t == Strip(calls[k].text)
             p == SubSeq(r, 1, Len(r) - 3)
             cut == Min(Len(t), 2 * calls[k].max_length)
         IN /\ Len(r) >= 3
            /\ SubSeq(r, Len(r) - 2, Len(r)) = <<".", ".", ".">>
            /\ IsPrefix(p, t)
            /\ Len(p) <= 2 * calls[k].max_length
            /\ \A m \in (Len(p) + 1)..cut : IsSpace(t[m])
  /\ (pc \in AfterSummarize /\ Len(chunks) > 1) => Len(calls) = Len(chunks) + 1
  /\ (pc \in AfterSummarize /\ \E k \in 1..Len(calls) : calls[k].outcome = "raise") =>
       (data.Excerpt.k = "str" /\ data.Excerpt.v # <<>>)

\* a record returned after the summarizer raised on a chunk longer than the cut
C8_Witness ==
  /\ pc = "done"
  /\ Len(chunks) > 1
  /\ calls[1].outcome = "raise"
  /\ Len(calls[1].text) > 2 * calls[1].max_length
  /\ calls[Len(calls)].outcome = "raise"

\* the rules of the body extractor, in order, each yielding "" when it does
\* not apply
BodyRules(elements) ==
  LET article == Find(elements, "article")
      main == Find(elements, "main")
  IN <<IF article # <<>> THEN JoinParagraphs(FindAllP(article[1])) ELSE <<>>,
       IF article # <<>> /\ FindAllP(article[1]) = <<>>
       THEN GetText(AllStrings(article[1].children), <<"\n">>) ELSE <<>>,
       IF main # <<>> THEN JoinParagraphs(FindAllP(main[1])) ELSE <<>>,
       BestCluster(elements, <<>>),
       JoinParagraphs(AllP(elements))>>

\* the result of the first rule that yields non-empty text, "" if none does
FirstNonEmpty(results) ==
  LET hits == {k \in 1..Len(results) : results[k] # <<>>}
  IN IF hits = {} THEN <<>> ELSE results[CHOOSE k \in hits : \A m \in hits : k <= m]

\* C9: extract_main_text returns the result of the first of its rules, in
\* order, that yields non-empty text.
C9_FirstNonEmptyRuleWins ==
  bx.pc = "done" => bx.result = FirstNonEmpty(BodyRules(bx.elements))

\* C10: every iteration of the loop moves the cursor strictly forward, by at
\* most max_chars, to start + max_chars or to one past a period that lies
\* more than max_chars // 4 after the cursor; the loop exits as soon as the
\* cursor reaches the text length, and the call returns.
C10_LoopTerminates ==
  /\ [][(ck.pc = "loop" /\ ck.start < ck.n) =>
          /\ ck'.start > ck.start
          /\ ck'.start <= ck.start + ck.max_chars
          /\ \/ ck'.start = ck.start + ck.max_chars
             \/ /\ ck.t[ck'.start] = "."
                /\ (ck'.start - 1) - ck.start > ck.max_chars \div 4]_vars
  /\ [][(ck.pc = "loop" /\ ck.start >= ck.n) => ck'.pc = "done"]_vars
  /\ <>(ck.pc = "done")

\* a finished call whose loop cut after a period, short of the full window
C10_Witness ==
  /\ ck.pc = "done"
  /\ Len(ck.chunks) > 1
  /\ \E k \in 1..Len(ck.cuts) :
       /\ ck.cuts[k][2] < ck.cuts[k][1] + ck.max_chars
       /\ ck.cuts[k][2] < ck.n

=============================================================================
